---- MODULE Spec2Model ----
(***************************************************************************)
(* Model of src/patterns/creational/factory/solution/factory_pattern.py:   *)
(* DatabaseFactory (class-level registry of connection classes),           *)
(* ConfigurationManager (class-level table of configuration dicts) and     *)
(* DatabaseConnectionManager (per-instance cache of connections).          *)
(*                                                                         *)
(* Python objects live on heaps: a configuration dict is a reference into  *)
(* `dicts`, a connection object is an index into `handles`.  A reference   *)
(* returned to the caller aliases the stored object, as in Python.         *)
(***************************************************************************)
EXTENDS Integers, Sequences, FiniteSets, TLC

\* ------------------------------------------------------------------ bounds
MaxManagers == 2     \* DatabaseConnectionManager instances created
MaxCalls == 2        \* constructor invocations over a run
MaxMutations == 1    \* caller writes through a configuration reference

\* ------------------------------------------------------------ input values
BuiltinTypes == {"mysql", "postgresql", "mongodb", "redis"}

\* db_type arguments tried by callers: two built-in types and the type
\* that demonstrate_extensibility adds at runtime
TypeIds == {"mysql", "redis", "cassandra"}

SeededEnvironments == {"development", "production"}

\* environment arguments tried by callers: a configured one and one that
\* _configurations lacks
EnvironmentIds == {"development", "staging"}

Classes ==
    {"MySQLConnection", "PostgreSQLConnection", "MongoDBConnection",
     "RedisConnection", "CassandraConnection"}

\* db_type arguments of direct create_connection calls: "oracle" is never
\* registered
CreateTypes == TypeIds \cup {"oracle"}

\* arguments callers pass to register_connection_class
RegisterTypes == {"redis", "cassandra"}

RegisterClasses == {"MySQLConnection", "CassandraConnection"}

\* ------------------------------------------------- Python dict primitives
\* An insertion-ordered dict is a sequence of <<key, value>> pairs.
DictKeys(d) == [i \in 1..Len(d) |-> d[i][1]]

DictHas(d, k) == \E i \in 1..Len(d) : d[i][1] = k

DictGet(d, k) == d[CHOOSE i \in 1..Len(d) : d[i][1] = k][2]

\* d[k] = v : overwrite in place when k is present, append otherwise
DictSet(d, k, v) ==
    IF DictHas(d, k)
    THEN [i \in 1..Len(d) |-> IF d[i][1] = k THEN <<k, v>> ELSE d[i]]
    ELSE Append(d, <<k, v>>)

\* cfg.get(k, default) on a configuration dict (a function on its keys)
Get(cfg, k, default) == IF k \in DOMAIN cfg THEN cfg[k] ELSE default

\* ----------------------------------------------------------------- errors
NoError == [type |-> "None", msg |-> <<>>]

ValueError(msg) == [type |-> "ValueError", msg |-> msg]

\* cfg[k] on a missing key
KeyError(k) == [type |-> "KeyError", msg |-> <<k>>]

\* ------------------------------------------------- configuration table
\* References to the inner dicts of ConfigurationManager._configurations,
\* and to the dict the caller builds itself.
SeededRefs == {<<e, t>> : e \in SeededEnvironments, t \in BuiltinTypes}

cassandra_config == <<"caller", "cassandra_config">>

ConfigRefs == SeededRefs \cup {cassandra_config}

NoRef == <<"none", "none">>

\* The two outer levels of _configurations: environment -> db_type -> dict
configurations ==
    [e \in SeededEnvironments |-> [t \in BuiltinTypes |-> <<e, t>>]]

\* Contents of every dict when the module is loaded
SeedDicts ==
    [r \in ConfigRefs |->
       CASE r = <<"development", "mysql">> ->
              [host |-> "localhost", port |-> 3306, username |-> "dev_user",
               password |-> "dev_pass", ssl_enabled |-> FALSE, pool_size |-> 2]
         [] r = <<"development", "postgresql">> ->
              [host |-> "localhost", port |-> 5432, username |-> "dev_user",
               password |-> "dev_pass", database |-> "dev_db",
               ssl_mode |-> "disable", pool_size |-> 5]
         [] r = <<"development", "mongodb">> ->
              [host |-> "localhost", port |-> 27017, username |-> "dev_user",
               password |-> "dev_pass", auth_source |-> "admin",
               read_preference |-> "primary"]
         [] r = <<"development", "redis">> ->
              [host |-> "localhost", port |-> 6379, db |-> 0]
         [] r = <<"production", "mysql">> ->
              [host |-> "prod-mysql.company.com", port |-> 3306,
               username |-> "prod_user",
               password |-> "strong_prod_password_123!",
               ssl_enabled |-> TRUE, pool_size |-> 20]
         [] r = <<"production", "postgresql">> ->
              [host |-> "prod-postgres.company.com", port |-> 5432,
               username |-> "prod_user",
               password |-> "strong_prod_password_456!",
               database |-> "prod_db", ssl_mode |-> "require",
               pool_size |-> 25]
         [] r = <<"production", "mongodb">> ->
              [host |-> "prod-mongo.company.com", port |-> 27017,
               username |-> "prod_user",
               password |-> "strong_prod_password_789!",
               auth_source |-> "admin", replica_set |-> "prod-replica-set",
               read_preference |-> "secondaryPreferred"]
         [] r = <<"production", "redis">> ->
              [host |-> "prod-redis.company.com", port |-> 6379,
               password |-> "redis_prod_password", db |-> 0]
         [] r = cassandra_config ->
              [host |-> "cassandra.company.com", port |-> 9042,
               keyspace |-> "my_keyspace"]]

\* ------------------------------------------------------------ constructors
\* First key of `order` that cfg lacks, or "" when cfg has them all.
FirstMissing(order, cfg) ==
    IF \A i \in 1..Len(order) : order[i] \in DOMAIN cfg
    THEN ""
    ELSE order[CHOOSE i \in 1..Len(order) :
                 /\ order[i] \notin DOMAIN cfg
                 /\ \A j \in 1..(i - 1) : order[j] \in DOMAIN cfg]

\* Bug variant: RedisConnection subscripts config['password'] instead of
\* reading it with config.get('password').
RequiredKeys_RedisPassword(cls) ==
    CASE cls = "MySQLConnection" -> <<"username", "password", "host", "port">>
      [] cls = "PostgreSQLConnection" ->
           <<"username", "password", "host", "port", "database">>
      [] cls = "MongoDBConnection" -> <<"username", "password", "host", "port">>
      [] cls = "RedisConnection" -> <<"password", "host", "port">>
      [] cls = "CassandraConnection" -> <<>>

\* Keys each _build_connection_string subscripts, in evaluation order
RequiredKeys(cls) ==
    CASE cls = "MySQLConnection" -> <<"username", "password", "host", "port">>
      [] cls = "PostgreSQLConnection" ->
           <<"username", "password", "host", "port", "database">>
      [] cls = "MongoDBConnection" -> <<"username", "password", "host", "port">>
      [] cls = "RedisConnection" -> <<"host", "port">>
      [] cls = "CassandraConnection" -> <<>>

\* The f-string of each _build_connection_string, piece by piece
BuildConnectionString(cls, cfg) ==
    CASE cls = "MySQLConnection" ->
           <<"mysql://", cfg["username"], ":", cfg["password"], "@",
             cfg["host"], ":", cfg["port"],
             IF Get(cfg, "ssl_enabled", FALSE) THEN "?sslmode=require" ELSE "">>
      [] cls = "PostgreSQLConnection" ->
           <<"postgresql://", cfg["username"], ":", cfg["password"], "@",
             cfg["host"], ":", cfg["port"], "/", cfg["database"], "?",
             "sslmode=", Get(cfg, "ssl_mode", "prefer")>>
      [] cls = "MongoDBConnection" ->
           <<"mongodb://", cfg["username"], ":", cfg["password"], "@",
             cfg["host"], ":", cfg["port"], "/",
             Get(cfg, "auth_source", "admin"),
             IF Get(cfg, "replica_set", "") # ""
             THEN <<"?replicaSet=", Get(cfg, "replica_set", "")>> ELSE <<>>>>
      [] cls = "RedisConnection" ->
           <<"redis://",
             IF "password" \in DOMAIN cfg /\ cfg["password"] # ""
             THEN <<":", cfg["password"], "@">> ELSE <<>>,
             cfg["host"], ":", cfg["port"], "/", Get(cfg, "db", 0)>>
      [] cls = "CassandraConnection" -> <<>>

\* connection_class(config): the outcome of __init__ on the dict at `ref`
\* whose contents are cfg.  The object keeps the reference, not a copy.
Construct(cls, ref, cfg) ==
    LET missing == FirstMissing(RequiredKeys(cls), cfg)
    IN  IF missing = ""
        THEN [exc |-> NoError,
              obj |-> [cls |-> cls, config |-> ref,
                       connection_string |-> BuildConnectionString(cls, cfg)]]
        ELSE [exc |-> KeyError(missing),
              obj |-> [cls |-> cls, config |-> ref, connection_string |-> <<>>]]

\* connection.disconnect()
Disconnect(cls) ==
    CASE cls = "MySQLConnection" -> "MySQL connection closed"
      [] cls = "PostgreSQLConnection" -> "PostgreSQL connection closed"
      [] cls = "MongoDBConnection" -> "MongoDB connection closed"
      [] cls = "RedisConnection" -> "Redis connection closed"
      [] cls = "CassandraConnection" -> "Cassandra connection closed"

\* ------------------------------------------------------------------ state
VARIABLES
    connection_classes,  \* DatabaseFactory._connection_classes (ordered dict)
    dicts,               \* contents of every configuration dict, by reference
    managers,            \* the DatabaseConnectionManager instances created
    handles,             \* the connection objects constructed, by identity
    calls,               \* per class, how often its constructor was invoked
    disconnects,         \* per connection object, how often disconnect() ran
    origin,              \* per connection object, the manager and key that
                         \* cached it (<<0, "">>: created by the caller)
    mutations,           \* how many writes the caller made through a reference
    last                 \* the call just made: arguments and outcome

vars ==
    <<connection_classes, dicts, managers, handles, calls, disconnects,
      origin, mutations, last>>

\* Outcome record of a call.  ret is the identity of the returned connection
\* (0: none), cfg the configuration reference passed in or handed out,
\* invoked the class whose constructor ran ("" : none).
Outcome(op, mgr, env, db_type, cls, cfg, hit, invoked, exc, ret) ==
    [op |-> op, mgr |-> mgr, env |-> env, db_type |-> db_type, cls |-> cls,
     cfg |-> cfg, hit |-> hit, invoked |-> invoked, exc |-> exc, ret |-> ret]

\* What is left of a connection object once nothing refers to it
Collected == [cls |-> "", config |-> NoRef, connection_string |-> <<>>]

\* Reference counting: an object stays while a manager caches it or the
\* caller holds it as the result of the call just made (keep).
Collect(hs, ms, keep) ==
    [h \in 1..Len(hs) |->
       IF \/ h = keep
          \/ \E m \in 1..Len(ms) : \E t \in DOMAIN ms[m].connections :
                ms[m].connections[t] = h
       THEN hs[h] ELSE Collected]

TotalCalls ==
    calls["MySQLConnection"] + calls["PostgreSQLConnection"]
    + calls["MongoDBConnection"] + calls["RedisConnection"]
    + calls["CassandraConnection"]

\* References the caller holds right now: its own dict, and whatever the
\* call just made handed out (a get_config result, a connection's .config).
CallerRefs == {cassandra_config} \cup ({last.cfg} \ {NoRef})

\* The empty dict {}
EmptyDict == [k \in {} |-> 0]

\* DatabaseFactory._connection_classes as the class body defines it
BuiltinConnectionClasses ==
    << <<"mysql", "MySQLConnection">>,
       <<"postgresql", "PostgreSQLConnection">>,
       <<"mongodb", "MongoDBConnection">>,
       <<"redis", "RedisConnection">> >>

Init ==
    /\ connection_classes = BuiltinConnectionClasses
    /\ dicts = SeedDicts
    /\ managers = <<>>
    /\ handles = <<>>
    /\ calls = [c \in Classes |-> 0]
    /\ disconnects = <<>>
    /\ origin = <<>>
    /\ mutations = 0
    /\ last = Outcome("init", 0, "", "", "", NoRef, FALSE, "", NoError, 0)

\* ------------------------------------------ DatabaseFactory (lines 137-162)
\* Bug variant: an existing entry is kept (setdefault instead of assignment).
register_connection_class_KeepFirst(classes, db_type, connection_class) ==
    IF DictHas(classes, db_type)
    THEN classes
    ELSE Append(classes, <<db_type, connection_class>>)

\* register_connection_class: cls._connection_classes[db_type] = connection_class
register_connection_class(classes, db_type, connection_class) ==
    DictSet(classes, db_type, connection_class)

\* Bug variant: the class is looked up by position, not by db_type.
create_connection_FirstClass(classes, db_type, ref, cfg) ==
    IF ~DictHas(classes, db_type)
    THEN [exc |-> ValueError(<<"Unknown database type: ", db_type,
                               ". Available types: ", DictKeys(classes)>>),
          invoked |-> "",
          obj |-> [cls |-> "", config |-> NoRef, connection_string |-> <<>>]]
    ELSE LET connection_class == classes[1][2]
             made == Construct(connection_class, ref, cfg)
         IN  [exc |-> made.exc, invoked |-> connection_class, obj |-> made.obj]

\* Bug variant: an unknown db_type falls back to MySQLConnection instead of
\* raising.
create_connection_Fallback(classes, db_type, ref, cfg) ==
    LET connection_class == IF DictHas(classes, db_type)
                            THEN DictGet(classes, db_type)
                            ELSE "MySQLConnection"
        made == Construct(connection_class, ref, cfg)
    IN  [exc |-> made.exc, invoked |-> connection_class, obj |-> made.obj]

\* create_connection: the lookup, then connection_class(config).
\* invoked is the class whose constructor ran, "" when none did.
\* Bug variant: the constructor's exception is caught and another one is
\* raised in its place (except Exception: raise ValueError(...)).
create_connection_Wraps(classes, db_type, ref, cfg) ==
    IF ~DictHas(classes, db_type)
    THEN [exc |-> ValueError(<<"Unknown database type: ", db_type,
                               ". Available types: ", DictKeys(classes)>>),
          invoked |-> "",
          obj |-> [cls |-> "", config |-> NoRef, connection_string |-> <<>>]]
    ELSE LET connection_class == DictGet(classes, db_type)
             made == Construct(connection_class, ref, cfg)
         IN  [exc |-> IF made.exc = NoError
                      THEN NoError
                      ELSE ValueError(<<"Cannot create ", db_type>>),
              invoked |-> connection_class, obj |-> made.obj]

create_connection(classes, db_type, ref, cfg) ==
    IF ~DictHas(classes, db_type)
    THEN [exc |-> ValueError(<<"Unknown database type: ", db_type,
                               ". Available types: ", DictKeys(classes)>>),
          invoked |-> "",
          obj |-> [cls |-> "", config |-> NoRef, connection_string |-> <<>>]]
    ELSE LET connection_class == DictGet(classes, db_type)
             made == Construct(connection_class, ref, cfg)
         IN  [exc |-> made.exc, invoked |-> connection_class, obj |-> made.obj]

\* ------------------------------------- ConfigurationManager (lines 237-248)
\* Bug variant: an unknown environment falls back to "development".
get_config_DefaultEnv(environment, db_type) ==
    LET env == IF environment \in DOMAIN configurations
               THEN environment ELSE "development"
    IN  IF db_type \notin DOMAIN configurations[env]
        THEN [exc |-> ValueError(<<"No configuration for ", db_type, " in ",
                                   env, " environment">>),
              ref |-> NoRef]
        ELSE [exc |-> NoError, ref |-> configurations[env][db_type]]

\* get_config: the reference to the stored dict, or the error raised
get_config(environment, db_type) ==
    IF environment \notin DOMAIN configurations
    THEN [exc |-> ValueError(<<"Unknown environment: ", environment>>),
          ref |-> NoRef]
    ELSE IF db_type \notin DOMAIN configurations[environment]
    THEN [exc |-> ValueError(<<"No configuration for ", db_type, " in ",
                               environment, " environment">>),
          ref |-> NoRef]
    ELSE [exc |-> NoError, ref |-> configurations[environment][db_type]]

\* ---------------------------------------------------------------- actions
\* DatabaseFactory.register_connection_class(db_type, connection_class)
RegisterConnectionClass(db_type, connection_class) ==
    /\ connection_classes' =
         register_connection_class(connection_classes, db_type, connection_class)
    /\ last' = Outcome("register_connection_class", 0, "", db_type,
                       connection_class, NoRef, FALSE, "", NoError, 0)
    /\ handles' = Collect(handles, managers, 0)
    /\ UNCHANGED <<dicts, managers, calls, disconnects, origin, mutations>>

\* DatabaseFactory.create_connection(db_type, config) called directly
CreateConnection(db_type, ref) ==
    LET r == create_connection(connection_classes, db_type, ref, dicts[ref])
        new == Len(handles) + 1
    IN  /\ r.invoked # "" => TotalCalls < MaxCalls
        /\ calls' = IF r.invoked # ""
                    THEN [calls EXCEPT ![r.invoked] = @ + 1] ELSE calls
        /\ disconnects' = IF r.exc = NoError
                          THEN Append(disconnects, 0) ELSE disconnects
        /\ origin' = IF r.exc = NoError
                     THEN Append(origin, <<0, "">>) ELSE origin
        /\ last' = Outcome("create_connection", 0, "", db_type, "", ref, FALSE,
                           r.invoked, r.exc, IF r.exc = NoError THEN new ELSE 0)
        /\ handles' = IF r.exc = NoError
                      THEN Collect(Append(handles, r.obj), managers, new)
                      ELSE Collect(handles, managers, 0)
        /\ UNCHANGED <<connection_classes, dicts, managers, mutations>>

\* ConfigurationManager.get_config(environment, db_type) called directly
GetConfig(environment, db_type) ==
    LET r == get_config(environment, db_type)
    IN  /\ last' = Outcome("get_config", 0, environment, db_type, "", r.ref,
                           FALSE, "", r.exc, 0)
        /\ handles' = Collect(handles, managers, 0)
        /\ UNCHANGED <<connection_classes, dicts, managers, calls, disconnects,
                       origin, mutations>>

\* DatabaseConnectionManager(environment)
NewManager(environment) ==
    /\ Len(managers) < MaxManagers
    /\ managers' = Append(managers, [environment |-> environment,
                                     connections |-> EmptyDict])
    /\ last' = Outcome("__init__", Len(managers) + 1, environment, "", "",
                       NoRef, FALSE, "", NoError, 0)
    /\ handles' = Collect(handles, managers, 0)
    /\ UNCHANGED <<connection_classes, dicts, calls, disconnects, origin,
                   mutations>>

\* Bug variant: storing a connection replaces the whole cache.
StoreConnection_Replace(connections, db_type, new) == db_type :> new

\* self._connections[db_type] = <the new connection>
StoreConnection(connections, db_type, new) == (db_type :> new) @@ connections

\* Bug variant: the cache is never consulted.
Cached_Never(self, db_type) == FALSE

\* get_connection's test: db_type in self._connections
Cached(self, db_type) == db_type \in DOMAIN self.connections

\* Bug variant: the cache entry is written before the constructor has
\* succeeded, so a failed construction leaves a half-built object cached.
GetConnection_CachesFailure(m, db_type) ==
    LET self == managers[m]
    IN  IF Cached(self, db_type)
        THEN /\ last' = Outcome("get_connection", m, self.environment, db_type,
                                "", handles[self.connections[db_type]].config,
                                TRUE, "", NoError, self.connections[db_type])
             /\ handles' = Collect(handles, managers, 0)
             /\ UNCHANGED <<connection_classes, dicts, managers, calls,
                            disconnects, origin, mutations>>
        ELSE LET c == get_config(self.environment, db_type)
             IN  IF c.exc # NoError
                 THEN /\ last' = Outcome("get_connection", m, self.environment,
                                         db_type, "", NoRef, FALSE, "", c.exc, 0)
                      /\ handles' = Collect(handles, managers, 0)
                      /\ UNCHANGED <<connection_classes, dicts, managers,
                                     calls, disconnects, origin, mutations>>
                 ELSE LET r == create_connection(connection_classes, db_type,
                                                 c.ref, dicts[c.ref])
                          new == Len(handles) + 1
                      IN  /\ r.invoked # "" => TotalCalls < MaxCalls
                          /\ calls' = IF r.invoked # ""
                                      THEN [calls EXCEPT ![r.invoked] = @ + 1]
                                      ELSE calls
                          /\ disconnects' = Append(disconnects, 0)
                          /\ origin' = Append(origin, <<m, db_type>>)
                          /\ managers' =
                               [managers EXCEPT ![m].connections =
                                  StoreConnection(@, db_type, new)]
                          /\ last' = Outcome("get_connection", m,
                                             self.environment, db_type, "",
                                             IF r.exc = NoError
                                             THEN c.ref ELSE NoRef,
                                             FALSE, r.invoked, r.exc,
                                             IF r.exc = NoError THEN new ELSE 0)
                          /\ handles' =
                               Collect(Append(handles, r.obj), managers', 0)
                          /\ UNCHANGED <<connection_classes, dicts, mutations>>

\* Bug variant: the class is looked up in the registry before the
\* configuration is fetched, so an unregistered type fails as unknown type
\* whatever the environment.
GetConnection_RegistryFirst(m, db_type) ==
    LET self == managers[m]
    IN  IF Cached(self, db_type)
        THEN /\ last' = Outcome("get_connection", m, self.environment, db_type,
                                "", handles[self.connections[db_type]].config,
                                TRUE, "", NoError, self.connections[db_type])
             /\ handles' = Collect(handles, managers, 0)
             /\ UNCHANGED <<connection_classes, dicts, managers, calls,
                            disconnects, origin, mutations>>
        ELSE LET known == DictHas(connection_classes, db_type)
                 c == IF known
                      THEN get_config(self.environment, db_type)
                      ELSE [exc |-> create_connection(connection_classes,
                                      db_type, NoRef, EmptyDict).exc,
                            ref |-> NoRef]
             IN  IF c.exc # NoError
                 THEN /\ last' = Outcome("get_connection", m, self.environment,
                                         db_type, "", NoRef, FALSE, "", c.exc, 0)
                      /\ handles' = Collect(handles, managers, 0)
                      /\ UNCHANGED <<connection_classes, dicts, managers,
                                     calls, disconnects, origin, mutations>>
                 ELSE LET r == create_connection(connection_classes, db_type,
                                                 c.ref, dicts[c.ref])
                          new == Len(handles) + 1
                      IN  /\ r.invoked # "" => TotalCalls < MaxCalls
                          /\ calls' = IF r.invoked # ""
                                      THEN [calls EXCEPT ![r.invoked] = @ + 1]
                                      ELSE calls
                          /\ disconnects' = IF r.exc = NoError
                                            THEN Append(disconnects, 0)
                                            ELSE disconnects
                          /\ origin' = IF r.exc = NoError
                                       THEN Append(origin, <<m, db_type>>)
                                       ELSE origin
                          /\ managers' =
                               IF r.exc = NoError
                               THEN [managers EXCEPT ![m].connections =
                                       StoreConnection(@, db_type, new)]
                               ELSE managers
                          /\ last' = Outcome("get_connection", m,
                                             self.environment, db_type, "",
                                             IF r.exc = NoError
                                             THEN c.ref ELSE NoRef,
                                             FALSE, r.invoked, r.exc,
                                             IF r.exc = NoError THEN new ELSE 0)
                          /\ handles' =
                               IF r.exc = NoError
                               THEN Collect(Append(handles, r.obj), managers', 0)
                               ELSE Collect(handles, managers, 0)
                          /\ UNCHANGED <<connection_classes, dicts, mutations>>

\* manager.get_connection(db_type), for the m-th manager
GetConnection(m, db_type) ==
    LET self == managers[m]
    IN  IF Cached(self, db_type)
        THEN /\ last' = Outcome("get_connection", m, self.environment, db_type,
                                "", handles[self.connections[db_type]].config,
                                TRUE, "", NoError, self.connections[db_type])
             /\ handles' = Collect(handles, managers, 0)
             /\ UNCHANGED <<connection_classes, dicts, managers, calls,
                            disconnects, origin, mutations>>
        ELSE LET c == get_config(self.environment, db_type)
             IN  IF c.exc # NoError
                 THEN /\ last' = Outcome("get_connection", m, self.environment,
                                         db_type, "", NoRef, FALSE, "", c.exc, 0)
                      /\ handles' = Collect(handles, managers, 0)
                      /\ UNCHANGED <<connection_classes, dicts, managers,
                                     calls, disconnects, origin, mutations>>
                 ELSE LET r == create_connection(connection_classes, db_type,
                                                 c.ref, dicts[c.ref])
                          new == Len(handles) + 1
                      IN  /\ r.invoked # "" => TotalCalls < MaxCalls
                          /\ calls' = IF r.invoked # ""
                                      THEN [calls EXCEPT ![r.invoked] = @ + 1]
                                      ELSE calls
                          /\ disconnects' = IF r.exc = NoError
                                            THEN Append(disconnects, 0)
                                            ELSE disconnects
                          /\ origin' = IF r.exc = NoError
                                       THEN Append(origin, <<m, db_type>>)
                                       ELSE origin
                          /\ managers' =
                               IF r.exc = NoError
                               THEN [managers EXCEPT ![m].connections =
                                       StoreConnection(@, db_type, new)]
                               ELSE managers
                          /\ last' = Outcome("get_connection", m,
                                             self.environment, db_type, "",
                                             IF r.exc = NoError
                                             THEN c.ref ELSE NoRef,
                                             FALSE, r.invoked, r.exc,
                                             IF r.exc = NoError THEN new ELSE 0)
                          /\ handles' =
                               IF r.exc = NoError
                               THEN Collect(Append(handles, r.obj), managers', 0)
                               ELSE Collect(handles, managers, 0)
                          /\ UNCHANGED <<connection_classes, dicts, mutations>>

\* Bug variant: disconnect() runs on every cached connection but the
\* cache is not cleared.
CloseAllConnections_NoClear(m) ==
    LET self == managers[m]
        closing == {self.connections[t] : t \in DOMAIN self.connections}
    IN  /\ disconnects' = [h \in 1..Len(disconnects) |->
                             IF h \in closing
                             THEN disconnects[h] + 1 ELSE disconnects[h]]
        /\ last' = Outcome("close_all_connections", m, self.environment, "", "",
                           NoRef, FALSE, "", NoError, 0)
        /\ handles' = Collect(handles, managers, 0)
        /\ UNCHANGED <<connection_classes, dicts, managers, calls, origin,
                       mutations>>

\* Bug variant: the cache is cleared before the loop, so the loop finds
\* nothing to disconnect.
CloseAllConnections_ClearFirst(m) ==
    LET self == managers[m]
    IN  /\ managers' = [managers EXCEPT ![m].connections = EmptyDict]
        /\ last' = Outcome("close_all_connections", m, self.environment, "", "",
                           NoRef, FALSE, "", NoError, 0)
        /\ handles' = Collect(handles, managers', 0)
        /\ UNCHANGED <<connection_classes, dicts, calls, disconnects, origin,
                       mutations>>

\* manager.close_all_connections(), for the m-th manager.  The line printed
\* per connection is Disconnect(class); it goes to stdout only.
CloseAllConnections(m) ==
    LET self == managers[m]
        closing == {self.connections[t] : t \in DOMAIN self.connections}
    IN  /\ disconnects' = [h \in 1..Len(disconnects) |->
                             IF h \in closing
                             THEN disconnects[h] + 1 ELSE disconnects[h]]
        /\ managers' = [managers EXCEPT ![m].connections = EmptyDict]
        /\ last' = Outcome("close_all_connections", m, self.environment, "", "",
                           NoRef, FALSE, "", NoError, 0)
        /\ handles' = Collect(handles, managers', 0)
        /\ UNCHANGED <<connection_classes, dicts, calls, origin, mutations>>

\* The caller writes config[k] = v through a reference it holds.
SetOption(ref, k, v) ==
    /\ mutations < MaxMutations
    /\ dicts' = [dicts EXCEPT ![ref] = (k :> v) @@ @]
    /\ mutations' = mutations + 1
    /\ last' = Outcome("setitem", 0, "", "", "", ref, FALSE, "", NoError, 0)
    /\ handles' = Collect(handles, managers, 0)
    /\ UNCHANGED <<connection_classes, managers, calls, disconnects, origin>>

\* option keys and values the caller writes
MutKeys == {"host"}

MutValues == {"changed-host"}

Next ==
    \/ \E t \in RegisterTypes, c \in RegisterClasses :
         RegisterConnectionClass(t, c)
    \/ \E t \in CreateTypes, r \in CallerRefs : CreateConnection(t, r)
    \/ \E e \in EnvironmentIds, t \in TypeIds : GetConfig(e, t)
    \/ \E e \in EnvironmentIds : NewManager(e)
    \/ \E m \in 1..Len(managers), t \in TypeIds : GetConnection(m, t)
    \/ \E m \in 1..Len(managers) : CloseAllConnections(m)
    \/ \E r \in CallerRefs, k \in MutKeys, v \in MutValues : SetOption(r, k, v)

Spec == Init /\ [][Next]_vars

\* ----------------------------------------------------------- properties
\* The cache of the m-th manager
Cache(m) == managers[m].connections

\* The connection objects manager m has cached under key t so far
CachedSoFar(m, t) == {h \in 1..Len(origin) : origin[h] = <<m, t>>}

\* The latest connection manager m cached under key t was disconnected by
\* close_all_connections, and m has built none for t since.
TornDown(m, t) ==
    \E h \in CachedSoFar(m, t) :
       /\ disconnects[h] > 0
       /\ \A g \in CachedSoFar(m, t) : g <= h

\* C1: memoization.  A get_connection(t) on a manager that caches t returns
\* the cached connection object and invokes no constructor (every call
\* count stays as it was); a get_connection(t) that directly follows a
\* successful get_connection(t) on the same manager returns the same object.
C1_Memoization ==
    [][/\ (/\ last'.op = "get_connection"
           /\ last'.db_type \in DOMAIN Cache(last'.mgr))
          => /\ last'.exc = NoError
             /\ last'.ret = Cache(last'.mgr)[last'.db_type]
             /\ last'.invoked = ""
             /\ calls' = calls
       /\ (/\ last.op = "get_connection"
           /\ last.exc = NoError
           /\ last'.op = "get_connection"
           /\ last'.mgr = last.mgr
           /\ last'.db_type = last.db_type)
          => /\ last'.ret = last.ret
             /\ calls' = calls]_vars

\* A second get_connection("mysql") has just returned the cached object and
\* the constructor of its class has run once.
C1_Witness ==
    /\ last.op = "get_connection"
    /\ last.hit
    /\ last.db_type = "mysql"
    /\ calls[handles[last.ret].cls] = 1

\* C2: close_all_connections empties the cache, and the next
\* get_connection(t) for a type t that was cached before the teardown finds
\* no entry for t, invokes the constructor registered for t once more (its
\* call count goes up by one) and does not return a connection object that
\* existed before.
C2_CloseAllEmptiesCache ==
    [][/\ last'.op = "close_all_connections"
          => managers'[last'.mgr].connections = EmptyDict
       /\ \A m \in 1..Len(managers) : \A t \in TypeIds :
            (/\ TornDown(m, t)
             /\ last'.op = "get_connection"
             /\ last'.mgr = m
             /\ last'.db_type = t)
            => /\ t \notin DOMAIN Cache(m)
               /\ last'.invoked = DictGet(connection_classes, t)
               /\ calls' = [calls EXCEPT ![last'.invoked] = @ + 1]
               /\ last'.ret \notin 1..Len(handles)]_vars

\* A get_connection has just built a second connection for a key whose
\* first connection was closed by close_all_connections.
C2_Witness ==
    /\ last.op = "get_connection"
    /\ last.ret # 0
    /\ ~last.hit
    /\ \E h \in CachedSoFar(last.mgr, last.db_type) :
          h < last.ret /\ disconnects[h] > 0
    /\ Cache(last.mgr)[last.db_type] = last.ret

\* Every db_type a call can name
AllTypes == BuiltinTypes \cup CreateTypes \cup RegisterTypes

\* The ids with a registered class
KnownTypes(classes) == {t \in AllTypes : DictHas(classes, t)}

\* C3: create_connection on a db_type with no registered class raises the
\* unknown-type ValueError, whose message carries the requested db_type and
\* the ids known at that moment (runtime-registered ones included); it
\* invokes no constructor, returns no connection and leaves the registry as
\* it was.
C3_UnknownType ==
    [][(/\ last'.op = "create_connection"
        /\ last'.db_type \notin KnownTypes(connection_classes))
       => /\ last'.exc.type = "ValueError"
          /\ last'.exc.msg[1] = "Unknown database type: "
          /\ last'.exc.msg[2] = last'.db_type
          /\ {last'.exc.msg[4][i] : i \in 1..Len(last'.exc.msg[4])}
               = KnownTypes(connection_classes)
          /\ last'.invoked = ""
          /\ last'.ret = 0
          /\ calls' = calls
          /\ Len(handles') = Len(handles)
          /\ connection_classes' = connection_classes]_vars

\* create_connection("oracle", ...) has just failed after "cassandra" was
\* registered at runtime, and the error lists "cassandra".
C3_Witness ==
    /\ last.op = "create_connection"
    /\ last.db_type = "oracle"
    /\ last.exc.type = "ValueError"
    /\ DictHas(connection_classes, "cassandra")
    /\ \E i \in 1..Len(last.exc.msg[4]) : last.exc.msg[4][i] = "cassandra"

\* C4: register_connection_class never fails and is last-write-wins: after
\* it, db_type maps to the class just given, whatever was there before
\* (built-in or runtime-added), every other id keeps its class, nothing but
\* a registration changes the registry, and every constructor
\* create_connection invokes is the one registered at the time of the call.
C4_RegisterLastWriteWins ==
    [][/\ last'.op = "register_connection_class"
          => /\ last'.exc = NoError
             /\ DictHas(connection_classes', last'.db_type)
             /\ DictGet(connection_classes', last'.db_type) = last'.cls
             /\ \A t \in AllTypes \ {last'.db_type} :
                  /\ DictHas(connection_classes', t)
                       = DictHas(connection_classes, t)
                  /\ DictHas(connection_classes, t)
                       => DictGet(connection_classes', t)
                            = DictGet(connection_classes, t)
       /\ last'.op # "register_connection_class"
          => connection_classes' = connection_classes
       /\ (/\ last'.op \in {"create_connection", "get_connection"}
           /\ last'.invoked # "")
          => last'.invoked = DictGet(connection_classes, last'.db_type)]_vars

\* "cassandra" was registered with CassandraConnection and built once, then
\* registered again with MySQLConnection, and create_connection("cassandra")
\* has just invoked MySQLConnection.
C4_Witness ==
    /\ last.op = "create_connection"
    /\ last.db_type = "cassandra"
    /\ last.invoked = "MySQLConnection"
    /\ calls["CassandraConnection"] = 1
    /\ DictGet(connection_classes, "redis") = "RedisConnection"

\* C5: get_config returns its result by value: whatever a caller does with
\* a mapping it was handed, every get_config(env, type) keeps returning
\* contents equal to the seeded configuration.
C5_ConfigByValue ==
    \A e \in SeededEnvironments : \A t \in BuiltinTypes :
       LET r == get_config(e, t)
       IN  r.exc = NoError /\ dicts[r.ref] = SeedDicts[<<e, t>>]

\* C6: with an environment that _configurations lacks, get_config and
\* get_connection raise the unknown-environment ValueError for every
\* db_type, hand out nothing and invoke no constructor; constructing a
\* manager with such an environment succeeds, and that manager never caches
\* anything.
C6_UnknownEnvironment ==
    /\ (/\ last.op \in {"get_config", "get_connection"}
        /\ last.env \notin SeededEnvironments)
       => /\ last.exc.type = "ValueError"
          /\ last.exc.msg = <<"Unknown environment: ", last.env>>
          /\ last.ret = 0
          /\ last.cfg = NoRef
          /\ last.invoked = ""
    /\ last.op = "__init__"
       => /\ last.exc = NoError
          /\ last.mgr = Len(managers)
          /\ managers[last.mgr].environment = last.env
    /\ \A m \in 1..Len(managers) :
          managers[m].environment \notin SeededEnvironments
          => Cache(m) = EmptyDict

\* get_connection("mysql") on a manager built for "staging" has just failed.
C6_Witness ==
    /\ last.op = "get_connection"
    /\ managers[last.mgr].environment = "staging"
    /\ last.db_type = "mysql"
    /\ last.exc.type = "ValueError"

\* The exception class each failure is raised with
UnknownEnvironmentKind == get_config("staging", "mysql").exc.type

UnknownTypeKind ==
    create_connection(<<>>, "mysql", cassandra_config,
                      SeedDicts[cassandra_config]).exc.type

\* C7: get_config on a configured environment with no entry for db_type
\* raises an error that carries the environment and the db_type and whose
\* kind differs from the kind of the unknown-environment error and from the
\* kind of the unknown-type error.
C7_UnknownConfigurationKind ==
    (/\ last.op = "get_config"
     /\ last.env \in SeededEnvironments
     /\ last.db_type \notin DOMAIN configurations[last.env])
    => /\ last.exc # NoError
       /\ \E i \in 1..Len(last.exc.msg) : last.exc.msg[i] = last.env
       /\ \E i \in 1..Len(last.exc.msg) : last.exc.msg[i] = last.db_type
       /\ last.exc.type # UnknownEnvironmentKind
       /\ last.exc.type # UnknownTypeKind

\* C8: create_connection on a registered db_type invokes the class registered
\* for it exactly once (that call count goes up by one, no other changes),
\* hands it the very config reference it was given, raises what the
\* constructor raises and returns the object the constructor built.
C8_CreateUsesRegisteredClass ==
    [][(/\ last'.op = "create_connection"
        /\ last'.db_type \in KnownTypes(connection_classes))
       => LET c == DictGet(connection_classes, last'.db_type)
              made == Construct(c, last'.cfg, dicts[last'.cfg])
          IN  /\ last'.invoked = c
              /\ calls' = [calls EXCEPT ![c] = @ + 1]
              /\ last'.exc = made.exc
              /\ made.exc = NoError
                 => /\ last'.ret = Len(handles) + 1
                    /\ Len(handles') = Len(handles) + 1
                    /\ handles'[last'.ret] = made.obj]_vars

\* create_connection("cassandra", cassandra_config) has just returned a
\* CassandraConnection holding cassandra_config.
C8_Witness ==
    /\ last.op = "create_connection"
    /\ last.db_type = "cassandra"
    /\ last.ret # 0
    /\ handles[last.ret].cls = "CassandraConnection"
    /\ handles[last.ret].config = cassandra_config

\* C9: a cache entry stays as it is until its own manager runs
\* close_all_connections: across every other step (registrations, calls for
\* other types, failed calls, calls on other managers, writes to
\* configuration dicts) the key keeps the same, unaltered connection object,
\* and a get_connection for it returns that object.
C9_NoSilentEviction ==
    [][\A m \in 1..Len(managers) : \A t \in DOMAIN Cache(m) :
         \/ last'.op = "close_all_connections" /\ last'.mgr = m
         \/ /\ t \in DOMAIN managers'[m].connections
            /\ managers'[m].connections[t] = Cache(m)[t]
            /\ handles'[Cache(m)[t]] = handles[Cache(m)[t]]
            /\ (/\ last'.op = "get_connection"
                /\ last'.mgr = m
                /\ last'.db_type = t)
               => last'.exc = NoError /\ last'.ret = Cache(m)[t]]_vars

\* After "redis" was cached, its class was overwritten and another manager
\* was torn down; get_connection("redis") has just returned the
\* RedisConnection cached at first.
C9_Witness ==
    /\ last.op = "get_connection"
    /\ last.hit
    /\ last.db_type = "redis"
    /\ handles[last.ret].cls = "RedisConnection"
    /\ DictGet(connection_classes, "redis") = "MySQLConnection"
    /\ \E m \in 1..Len(managers) : \E t \in TypeIds :
          m # last.mgr /\ TornDown(m, t)

\* Number of cached types of the m-th manager
N(m) == Cardinality(DOMAIN Cache(m))

\* C10: per manager the number N of cached types starts at 0, stays on a
\* cache hit and on a failed get_connection, goes up by exactly one on a
\* successful get_connection for a type not cached, becomes 0 on
\* close_all_connections and changes on no other step; close_all_connections
\* and get_connection can be called in every state (a get_connection that
\* would run a constructor only while the model's call budget lasts).
C10_CacheSizeMachine ==
    /\ [](\A m \in 1..Len(managers) :
            /\ ENABLED CloseAllConnections(m)
            /\ \A t \in TypeIds :
                 TotalCalls = MaxCalls \/ ENABLED GetConnection(m, t))
    /\ [][/\ \A m \in 1..Len(managers) :
               LET n == N(m)
                   n2 == Cardinality(DOMAIN managers'[m].connections)
                   mine == last'.mgr = m
               IN  /\ (mine /\ last'.op = "get_connection" /\ last'.hit)
                      => n2 = n
                   /\ (mine /\ last'.op = "get_connection"
                            /\ last'.exc # NoError)
                      => n2 = n
                   /\ (mine /\ last'.op = "get_connection" /\ ~last'.hit
                            /\ last'.exc = NoError)
                      => /\ n2 = n + 1
                         /\ last'.db_type \notin DOMAIN Cache(m)
                         /\ last'.db_type \in DOMAIN managers'[m].connections
                   /\ (mine /\ last'.op = "close_all_connections")
                      => n2 = 0
                   /\ ~(mine /\ last'.op \in {"get_connection",
                                              "close_all_connections"})
                      => n2 = n
          /\ \A m \in (Len(managers) + 1)..Len(managers') :
               managers'[m].connections = EmptyDict]_vars

\* A manager holding two cached types has just been emptied by
\* close_all_connections.
C10_Witness ==
    /\ last.op = "close_all_connections"
    /\ N(last.mgr) = 0
    /\ Cardinality({h \in 1..Len(origin) :
                      origin[h][1] = last.mgr /\ disconnects[h] = 1}) = 2

\* C11: close_all_connections runs disconnect() exactly once on every
\* connection its manager caches at the time of the call and on no other
\* connection (the ones to disconnect are those cached before the clear),
\* then leaves that manager with an empty cache and the same environment and
\* every other manager as it was; on an empty cache it runs no disconnect();
\* no other call runs disconnect().
C11_CloseAllDisconnectsCached ==
    [][/\ Len(disconnects') >= Len(disconnects)
       /\ last'.op = "close_all_connections"
          => LET m == last'.mgr
                 closing == {Cache(m)[t] : t \in DOMAIN Cache(m)}
             IN  /\ last'.exc = NoError
                 /\ Len(disconnects') = Len(disconnects)
                 /\ \A h \in 1..Len(disconnects) :
                      disconnects'[h] =
                        disconnects[h] + (IF h \in closing THEN 1 ELSE 0)
                 /\ Cache(m) = EmptyDict => disconnects' = disconnects
                 /\ managers'[m] = [environment |-> managers[m].environment,
                                    connections |-> EmptyDict]
                 /\ Len(managers') = Len(managers)
                 /\ \A o \in 1..Len(managers) :
                      o # m => managers'[o] = managers[o]
       /\ last'.op # "close_all_connections"
          => \A h \in 1..Len(disconnects) : disconnects'[h] = disconnects[h]]_vars

\* close_all_connections has just emptied one manager, disconnecting its
\* one connection once, while another manager still caches a connection
\* that was never disconnected.
C11_Witness ==
    /\ last.op = "close_all_connections"
    /\ Cache(last.mgr) = EmptyDict
    /\ \E h \in 1..Len(origin) :
          origin[h][1] = last.mgr /\ disconnects[h] = 1
    /\ \E o \in 1..Len(managers) : \E t \in DOMAIN Cache(o) :
          o # last.mgr /\ disconnects[Cache(o)[t]] = 0

\* C12: once a type that is not built in has been registered, both
\* DatabaseFactory.create_connection with a configuration its class accepts
\* and get_connection on a manager of a seeded environment succeed for it
\* and return an object of the registered class.
C12_RuntimeTypeUsable ==
    (/\ last.op \in {"create_connection", "get_connection"}
     /\ last.db_type \notin BuiltinTypes
     /\ last.db_type \in KnownTypes(connection_classes)
     /\ last.op = "create_connection"
        => Construct(DictGet(connection_classes, last.db_type), last.cfg,
                     dicts[last.cfg]).exc = NoError
     /\ last.op = "get_connection" => last.env \in SeededEnvironments)
    => /\ last.exc = NoError
       /\ last.ret \in 1..Len(handles)
       /\ handles[last.ret].cls = DictGet(connection_classes, last.db_type)

\* C13: an exception is handed to the caller as raised.  When the class
\* registered for db_type raises on the configuration, create_connection
\* fails with that very exception; a get_connection that misses the cache
\* fails with the exception of get_config when get_config raises, and
\* otherwise with the exception of create_connection (the unknown-type
\* ValueError or the constructor's own); in each case nothing is returned
\* and the constructor is invoked at most once, never a second time.
C13_ErrorsPropagateUnchanged ==
    [][/\ (/\ last'.op = "create_connection"
           /\ last'.db_type \in KnownTypes(connection_classes))
          => LET cls == DictGet(connection_classes, last'.db_type)
                 made == Construct(cls, last'.cfg, dicts[last'.cfg])
             IN  made.exc # NoError
                 => /\ last'.exc = made.exc
                    /\ last'.ret = 0
                    /\ calls' = [calls EXCEPT ![cls] = @ + 1]
       /\ (last'.op = "get_connection" /\ ~last'.hit)
          => LET t == last'.db_type
                 c == get_config(managers[last'.mgr].environment, t)
             IN  IF c.exc # NoError
                 THEN /\ last'.exc = c.exc
                      /\ last'.ret = 0
                      /\ calls' = calls
                 ELSE IF t \notin KnownTypes(connection_classes)
                 THEN /\ last'.exc.type = "ValueError"
                      /\ last'.exc.msg[1] = "Unknown database type: "
                      /\ last'.ret = 0
                      /\ calls' = calls
                 ELSE LET cls == DictGet(connection_classes, t)
                          made == Construct(cls, c.ref, dicts[c.ref])
                      IN  made.exc # NoError
                          => /\ last'.exc = made.exc
                             /\ last'.ret = 0
                             /\ calls' = [calls EXCEPT ![cls] = @ + 1]]_vars

\* get_connection("redis") has just failed with the KeyError that
\* MySQLConnection, registered under "redis", raised on the redis
\* configuration, which has no "username".
C13_Witness ==
    /\ last.op = "get_connection"
    /\ last.db_type = "redis"
    /\ last.invoked = "MySQLConnection"
    /\ last.exc = KeyError("username")
    /\ last.ret = 0

\* C14: the seeded configurations are complete for the built-in classes.
\* For each of development and production and each of mysql, postgresql,
\* mongodb and redis, get_config succeeds, and while the registry and the
\* dicts are as the module defines them the class registered for the type
\* finds every key it subscripts, so create_connection on that
\* configuration succeeds; accordingly every get_connection for such a
\* pair that misses the cache returns a connection.
C14_SeedComplete ==
    /\ \A e \in SeededEnvironments : \A t \in BuiltinTypes :
          LET c == get_config(e, t)
          IN  /\ c.exc = NoError
              /\ c.ref \in DOMAIN dicts
              /\ (connection_classes = BuiltinConnectionClasses
                  /\ dicts = SeedDicts)
                 => LET r == create_connection(connection_classes, t, c.ref,
                                               dicts[c.ref])
                    IN  /\ r.exc = NoError
                        /\ r.invoked = DictGet(BuiltinConnectionClasses, t)
                        /\ r.obj.config = c.ref
    /\ (/\ last.op = "get_connection"
        /\ ~last.hit
        /\ last.env \in SeededEnvironments
        /\ last.db_type \in BuiltinTypes
        /\ connection_classes = BuiltinConnectionClasses
        /\ dicts = SeedDicts)
       => /\ last.exc = NoError
          /\ last.ret \in 1..Len(handles)
          /\ handles[last.ret].cls =
               DictGet(BuiltinConnectionClasses, last.db_type)

\* With registry and configurations untouched, a development manager has
\* just built its redis connection from the seeded redis configuration.
C14_Witness ==
    /\ connection_classes = BuiltinConnectionClasses
    /\ dicts = SeedDicts
    /\ last.op = "get_connection"
    /\ ~last.hit
    /\ last.env = "development"
    /\ last.db_type = "redis"
    /\ last.exc = NoError
    /\ last.ret \in 1..Len(handles)
    /\ handles[last.ret].cls = "RedisConnection"
    /\ handles[last.ret].config = <<"development", "redis">>

\* C15: a get_connection that fails leaves every manager's cache as it
\* was: no entry for the type is added, every cached connection stays the
\* same object, and nothing is returned.  A get_connection for the same
\* manager and type made right after the failure is again a cache miss
\* that runs the lookup and, where the failure came from the constructor,
\* invokes the registered class once more.
C15_FailureLeavesCache ==
    [][/\ (last'.op = "get_connection" /\ last'.exc # NoError)
          => /\ managers' = managers
             /\ last'.db_type \notin DOMAIN managers'[last'.mgr].connections
             /\ last'.ret = 0
             /\ ~last'.hit
             /\ Len(handles') = Len(handles)
             /\ \A o \in 1..Len(managers) : \A t \in DOMAIN Cache(o) :
                   handles'[Cache(o)[t]] = handles[Cache(o)[t]]
       /\ (/\ last.op = "get_connection" /\ last.exc # NoError
           /\ last'.op = "get_connection"
           /\ last'.mgr = last.mgr /\ last'.db_type = last.db_type)
          => /\ ~last'.hit
             /\ last.invoked # ""
                => /\ last'.invoked =
                        DictGet(connection_classes, last.db_type)
                   /\ calls' = [calls EXCEPT ![last'.invoked] = @ + 1]]_vars

\* A manager that caches a mysql connection has just failed to build its
\* redis connection (MySQLConnection is registered under "redis"); the
\* mysql entry is still there and no redis entry was added.
C15_Witness ==
    /\ last.op = "get_connection"
    /\ last.db_type = "redis"
    /\ last.exc = KeyError("username")
    /\ DOMAIN Cache(last.mgr) = {"mysql"}
    /\ handles[Cache(last.mgr)["mysql"]].cls = "MySQLConnection"

\* C16: a get_connection that misses the cache asks ConfigurationManager
\* before DatabaseFactory, so the failure reported follows that order: an
\* environment without configurations gives "Unknown environment" and a
\* seeded environment without an entry for the type gives "No configuration
\* for ...", in both cases whether or not the type is registered and with
\* no constructor invoked; "Unknown database type" is reported only when
\* the configuration exists and the type has no registered class.
C16_ResolutionOrder ==
    (last.op = "get_connection" /\ ~last.hit)
    => LET e == last.env
           t == last.db_type
       IN  /\ e = managers[last.mgr].environment
           /\ e \notin DOMAIN configurations
              => /\ last.exc = ValueError(<<"Unknown environment: ", e>>)
                 /\ last.invoked = ""
           /\ (e \in DOMAIN configurations
               /\ t \notin DOMAIN configurations[e])
              => /\ last.exc = ValueError(<<"No configuration for ", t, " in ",
                                            e, " environment">>)
                 /\ last.invoked = ""
           /\ (last.exc.type = "ValueError"
               /\ last.exc.msg[1] = "Unknown database type: ")
              => /\ e \in DOMAIN configurations
                 /\ t \in DOMAIN configurations[e]
                 /\ t \notin KnownTypes(connection_classes)

\* get_connection("cassandra") on a development manager has just failed for
\* lack of a configuration while "cassandra" is not registered either.
C16_Witness ==
    /\ last.op = "get_connection"
    /\ last.env = "development"
    /\ last.db_type = "cassandra"
    /\ "cassandra" \notin KnownTypes(connection_classes)
    /\ last.exc.type = "ValueError"
    /\ last.exc.msg[1] = "No configuration for "

====
